---- MODULE Spec2Model ----
(***************************************************************************)
(* Model of the OMDB API client (src/src/api.py) and of the agent tools    *)
(* built on it and on the local IMDb Top 1000 dataset (src/src/tools.py).  *)
(*                                                                         *)
(* Python strings are sequences of one-character strings, so that          *)
(* str.lower() and the `in` substring test are computed, not assumed.      *)
(* Python values of varying type are records carrying a pytype field.      *)
(***************************************************************************)
EXTENDS Integers, Sequences, FiniteSets, TLC

VARIABLES
    pc,            \* control position of the process
    OMDB_API_KEY,  \* config.OMDB_API_KEY, read once at import
    df,            \* tools.df: the loaded dataset, or None
    inv,           \* the invocation in progress: the tool's name and arguments
    params,        \* call_omdb_api: the params argument
    max_retries,   \* call_omdb_api: the max_retries argument
    retry_delay,   \* call_omdb_api: the retry_delay argument
    attempt,       \* call_omdb_api: the loop variable of line 39
    log,           \* the requests, responses and pauses of the current client call
    ret,           \* how the current client call ended
    result1,       \* compare_two_movies: the first lookup's result
    dfq,           \* the dataset queries of the current invocation
    lookups,       \* the client calls of the current invocation that have ended
    out            \* how the invocation ended: a text, or an exception

vars == <<pc, OMDB_API_KEY, df, inv, params, max_retries, retry_delay,
          attempt, log, ret, result1, dfq, lookups, out>>

-----------------------------------------------------------------------------
(* Bounds of the model *)

MaxRetries == 3
MaxDelay == 2
MaxLimit == 2

(* Program constants *)

DefaultMaxRetries == 3
DefaultRetryDelay == 1

-----------------------------------------------------------------------------
(* Python strings *)

UpperCase == <<"A","B","C","D","E","F","G","H","I","J","K","L","M","N","O","P","Q","R","S","T","U","V","W","X","Y","Z">>
LowerCase == <<"a","b","c","d","e","f","g","h","i","j","k","l","m","n","o","p","q","r","s","t","u","v","w","x","y","z">>

LowerChar(c) ==
    IF \E i \in 1..Len(UpperCase) : UpperCase[i] = c
    THEN LowerCase[CHOOSE i \in 1..Len(UpperCase) : UpperCase[i] = c]
    ELSE c

\* str.lower()
Lower(s) == [i \in 1..Len(s) |-> LowerChar(s[i])]

\* sub in s
Contains(sub, s) ==
    \E i \in 0..(Len(s) - Len(sub)) :
        \A j \in 1..Len(sub) : s[i + j] = sub[j]

EmptyStr == <<>>
STR_limit == <<"l","i","m","i","t">>
STR_quota == <<"q","u","o","t","a">>
STR_not_found == <<"n","o","t"," ","f","o","u","n","d">>
STR_Unknown_error == <<"U","n","k","n","o","w","n"," ","e","r","r","o","r">>
NA == <<"N","/","A">>

-----------------------------------------------------------------------------
(* Python values *)

None == [pytype |-> "NoneType"]

IsNone(v) == v.pytype = "NoneType"

\* dict.get(key, default)
Get(d, key, default) == IF key \in DOMAIN d THEN d[key] ELSE default

HasKey(d, key) == key \in DOMAIN d

-----------------------------------------------------------------------------
(* What the remote service may answer *)

MsgRequestLimit == <<"R","e","q","u","e","s","t"," ","l","i","m","i","t"," ","r","e","a","c","h","e","d","!">>
MsgQuota == <<"D","a","i","l","y"," ","Q","U","O","T","A"," ","u","s","e","d">>
MsgMovieNotFound == <<"M","o","v","i","e"," ","n","o","t"," ","f","o","u","n","d","!">>
MsgNotFoundUpper == <<"S","e","r","i","e","s"," ","N","o","t"," ","F","o","u","n","d">>
MsgLimitNotFound == <<"L","i","m","i","t",":"," ","n","o","t"," ","f","o","u","n","d">>
MsgInvalidKey == <<"I","n","v","a","l","i","d"," ","A","P","I"," ","k","e","y","!">>

Heat == <<"H","e","a","t">>
Alien == <<"A","l","i","e","n">>
Y1995 == <<"1","9","9","5">>
Y1979 == <<"1","9","7","9">>
TypeMovie == <<"m","o","v","i","e">>
Zero == <<"0">>
Two == <<"2">>

ErrorMessages ==
    {MsgRequestLimit, MsgQuota, MsgMovieNotFound, MsgNotFoundUpper,
     MsgLimitNotFound, MsgInvalidKey}

FailurePayloads ==
    {[pytype |-> "dict", Response |-> "False", Error |-> m] : m \in ErrorMessages}
    \cup {[pytype |-> "dict", Response |-> "False"]}

MoviePayloads ==
    {[pytype |-> "dict", Response |-> "True", Title |-> Heat, Year |-> Y1995,
      imdbRating |-> <<"8",".","3">>],
     [pytype |-> "dict", Response |-> "True", Title |-> Alien],
     [pytype |-> "dict"]}

SearchPayloads ==
    {[pytype |-> "dict", Response |-> "True", totalResults |-> Two,
      Search |-> <<[Title |-> Heat, Year |-> Y1995, Type |-> TypeMovie],
                   [Title |-> Alien]>>],
     [pytype |-> "dict", Response |-> "True", totalResults |-> Zero],
     [pytype |-> "dict", Response |-> "True", Search |-> <<>>]}

\* a JSON body that is not an object
NonDictPayloads == {[pytype |-> "list"]}

Payloads == FailurePayloads \cup MoviePayloads \cup SearchPayloads \cup NonDictPayloads

-----------------------------------------------------------------------------
(* call_omdb_api *)

Return(v) == [kind |-> "return", value |-> v, exc |-> "", msg |-> "", detail |-> EmptyStr]

Raise(exc, msg, detail) ==
    [kind |-> "raise", value |-> None, exc |-> exc, msg |-> msg, detail |-> detail]

NoRet == [kind |-> "none", value |-> None, exc |-> "", msg |-> "", detail |-> EmptyStr]

OMDBAPIError(msg, detail) == Raise("OMDBAPIError", msg, detail)

EvRequest == [ev |-> "request", transport |-> "", data |-> None, secs |-> 0]
EvResponse(transport, data) ==
    [ev |-> "response", transport |-> transport, data |-> data, secs |-> 0]
EvSleep(secs) == [ev |-> "sleep", transport |-> "", data |-> None, secs |-> secs]

\* the check of line 32 left out
KeyMissing_never(key) == FALSE

KeyMissing(key) == key = EmptyStr

LoopContinues(a, m) == a < m

\* lines 52, 65, 71 written `attempt < max_retries`: a pause after the last attempt too
CanRetry_off_by_one(a, m) == a < m

CanRetry(a, m) == a < m - 1

\* line 53 without the attempt factor
RateLimitDelay_unscaled(d, a) == d

RateLimitDelay(d, a) == d * (a + 1)

\* lines 66 and 72 with the attempt factor of line 53
TransportDelay_scaled(d, a) == d * (a + 1)

TransportDelay(d, a) == d

\* line 51 written `"limit" or "quota" in error_message.lower()`: always true
IsRateLimitMessage_always(error_message) == TRUE

IsRateLimitMessage(error_message) ==
    Contains(STR_limit, Lower(error_message)) \/ Contains(STR_quota, Lower(error_message))

\* line 57 without .lower()
IsNotFoundMessage_case_sensitive(error_message) == Contains(STR_not_found, error_message)

IsNotFoundMessage(error_message) == Contains(STR_not_found, Lower(error_message))

\* One step of the loop body: pause and go round again, or end the call.
Sleep(secs) == [act |-> "sleep", secs |-> secs, ret |-> NoRet]
End(r) == [act |-> "end", secs |-> 0, ret |-> r]

\* lines 44-62: the body was parsed as JSON
HandleJson(data, a, m, d) ==
    IF data.pytype # "dict"
    THEN End(Raise("AttributeError", "object has no attribute 'get'", EmptyStr))
    ELSE IF HasKey(data, "Response") /\ data.Response = "False"
    THEN LET error_message == Get(data, "Error", STR_Unknown_error) IN
         IF IsRateLimitMessage(error_message)
         THEN IF CanRetry(a, m)
              THEN Sleep(RateLimitDelay(d, a))
              ELSE End(OMDBAPIError("Rate limit exceeded: ", error_message))
         ELSE IF IsNotFoundMessage(error_message)
         THEN End(Return(None))
         ELSE End(OMDBAPIError("OMDB API error: ", error_message))
    ELSE End(Return(data))

\* line 68 written as a bare `raise`: the Timeout itself leaves the call
HandleTimeout_reraise(a, m, d) ==
    IF CanRetry(a, m)
    THEN Sleep(TransportDelay(d, a))
    ELSE End(Raise("Timeout", "Read timed out", EmptyStr))

\* lines 64-68
HandleTimeout(a, m, d) ==
    IF CanRetry(a, m)
    THEN Sleep(TransportDelay(d, a))
    ELSE End(OMDBAPIError("Request timeout: OMDB API did not respond in time", EmptyStr))

\* lines 70-74
HandleRequestException(a, m, d) ==
    IF CanRetry(a, m)
    THEN Sleep(TransportDelay(d, a))
    ELSE End(OMDBAPIError("Network error: ", EmptyStr))

IsRequest(e) == e.ev = "request"

Requests(l) == Len(SelectSeq(l, IsRequest))

\* a client call that has ended: what was asked, the requests it issued, its outcome
Lookup(p, l, r) == [params |-> p, requests |-> Requests(l), ret |-> r]

Apply(step, event) ==
    /\ log' = IF step.act = "sleep"
              THEN log \o <<event, EvSleep(step.secs)>>
              ELSE Append(log, event)
    /\ lookups' = IF step.act = "sleep"
                  THEN lookups
                  ELSE Append(lookups, Lookup(params, log, step.ret))
    /\ pc' = IF step.act = "sleep" THEN "sleep" ELSE "ret"
    /\ ret' = step.ret
    /\ UNCHANGED <<OMDB_API_KEY, df, inv, params, max_retries, retry_delay,
                   attempt, result1, dfq, out>>

\* lines 32-37
ClientEnter ==
    /\ pc = "call"
    /\ IF KeyMissing(OMDB_API_KEY)
       THEN /\ ret' = OMDBAPIError("OMDB API key is not configured. Please set OMDB_API_KEY in .env file", EmptyStr)
            /\ pc' = "ret"
            /\ lookups' = Append(lookups, Lookup(params, <<>>, ret'))
       ELSE /\ ret' = NoRet
            /\ pc' = "loop"
            /\ lookups' = lookups
    /\ attempt' = 0
    /\ log' = <<>>
    /\ UNCHANGED <<OMDB_API_KEY, df, inv, params, max_retries, retry_delay,
                   result1, dfq, out>>

\* lines 39-41, and line 76 when the loop runs out
ClientRequest ==
    /\ pc = "loop"
    /\ IF LoopContinues(attempt, max_retries)
       THEN /\ log' = Append(log, EvRequest)
            /\ pc' = "await"
            /\ ret' = ret
            /\ lookups' = lookups
       ELSE /\ ret' = OMDBAPIError("Failed to connect to OMDB API after multiple retries", EmptyStr)
            /\ pc' = "ret"
            /\ log' = log
            /\ lookups' = Append(lookups, Lookup(params, log, ret'))
    /\ UNCHANGED <<OMDB_API_KEY, df, inv, params, max_retries, retry_delay,
                   attempt, result1, dfq, out>>

RecvJson ==
    /\ pc = "await"
    /\ \E data \in Payloads :
          Apply(HandleJson(data, attempt, max_retries, retry_delay), EvResponse("ok", data))

RecvTimeout ==
    /\ pc = "await"
    /\ Apply(HandleTimeout(attempt, max_retries, retry_delay), EvResponse("timeout", None))

RecvRequestException ==
    /\ pc = "await"
    /\ Apply(HandleRequestException(attempt, max_retries, retry_delay), EvResponse("error", None))

\* time.sleep returns, `continue`: the next iteration of line 39
SleepDone ==
    /\ pc = "sleep"
    /\ attempt' = attempt + 1
    /\ pc' = "loop"
    /\ UNCHANGED <<OMDB_API_KEY, df, inv, params, max_retries, retry_delay,
                   log, ret, result1, dfq, lookups, out>>

-----------------------------------------------------------------------------
(* The local dataset (pandas) *)

Crime == <<"C","r","i","m","e",","," ","D","r","a","m","a">>
Horror == <<"H","o","r","r","o","r",","," ","S","c","i","-","F","i">>
Mann == <<"M","i","c","h","a","e","l"," ","M","a","n","n">>
Scott == <<"R","i","d","l","e","y"," ","S","c","o","t","t">>
Pacino == <<"A","l"," ","P","a","c","i","n","o">>
DeNiro == <<"R","o","b","e","r","t"," ","D","e"," ","N","i","r","o">>
Weaver == <<"S","i","g","o","u","r","n","e","y"," ","W","e","a","v","e","r">>
Skerritt == <<"T","o","m"," ","S","k","e","r","r","i","t","t">>
Kilmer == <<"V","a","l"," ","K","i","l","m","e","r">>
Voight == <<"J","o","n"," ","V","o","i","g","h","t">>
Hurt == <<"J","o","h","n"," ","H","u","r","t">>
Holm == <<"I","a","n"," ","H","o","l","m">>

\* IMDB_Rating is kept in tenths: 8.3 is 83
RowHeat ==
    [Series_Title |-> Heat, Released_Year |-> Y1995, IMDB_Rating |-> 83,
     Genre |-> Crime, Director |-> Mann, Star1 |-> Pacino, Star2 |-> DeNiro,
     Star3 |-> Kilmer, Star4 |-> Voight, Overview |-> <<"h">>]

RowAlien ==
    [Series_Title |-> Alien, Released_Year |-> Y1979, IMDB_Rating |-> 85,
     Genre |-> Horror, Director |-> Scott, Star1 |-> Weaver, Star2 |-> Skerritt,
     Star3 |-> Hurt, Star4 |-> Holm, Overview |-> <<"a">>]

DataFrame(rows) == [pytype |-> "DataFrame", rows |-> rows]

\* what pd.read_csv may load
Datasets == {DataFrame(<<RowHeat, RowAlien>>)}

\* re.compile(pat) raises re.error: an opening parenthesis that is never closed
RegexError(pat) == Contains(<<"(">>, pat) /\ ~Contains(<<")">>, pat)

\* Series.str.contains(pat, case=False, na=False) on one cell, for a pattern of
\* literal characters
StrContains(cell, pat) == Contains(Lower(pat), Lower(cell))

RECURSIVE Filter(_, _, _)
\* df[df[col].str.contains(pat, case=False, na=False)].rows
Filter(rows, col, pat) ==
    IF rows = <<>> THEN <<>>
    ELSE (IF StrContains(Head(rows)[col], pat) THEN <<Head(rows)>> ELSE <<>>)
         \o Filter(Tail(rows), col, pat)

RECURSIVE FilterRating(_, _)
\* df[df["IMDB_Rating"] >= min_rating].rows
FilterRating(rows, min_rating) ==
    IF rows = <<>> THEN <<>>
    ELSE (IF Head(rows).IMDB_Rating >= min_rating THEN <<Head(rows)>> ELSE <<>>)
         \o FilterRating(Tail(rows), min_rating)

RECURSIVE FilterActor(_, _)
FilterActor(rows, actor) ==
    IF rows = <<>> THEN <<>>
    ELSE (IF \/ StrContains(Head(rows).Star1, actor)
             \/ StrContains(Head(rows).Star2, actor)
             \/ StrContains(Head(rows).Star3, actor)
             \/ StrContains(Head(rows).Star4, actor)
          THEN <<Head(rows)>> ELSE <<>>)
         \o FilterActor(Tail(rows), actor)

Remove(rows, i) == SubSeq(rows, 1, i - 1) \o SubSeq(rows, i + 1, Len(rows))

RECURSIVE NLargest(_, _)
\* DataFrame.nlargest(n, "IMDB_Rating"): descending, ties in their first order
NLargest(rows, n) ==
    IF n <= 0 \/ rows = <<>> THEN <<>>
    ELSE LET best == CHOOSE i \in 1..Len(rows) :
                        /\ \A j \in 1..Len(rows) : rows[j].IMDB_Rating <= rows[i].IMDB_Rating
                        /\ \A j \in 1..(i - 1) : rows[j].IMDB_Rating < rows[i].IMDB_Rating
         IN <<rows[best]>> \o NLargest(Remove(rows, best), n - 1)

-----------------------------------------------------------------------------
(* What an invocation hands back to the orchestrator *)

Text(msg, parts) == [kind |-> "text", msg |-> msg, parts |-> parts, exc |-> ""]

\* an exception the tool does not catch
Escapes(exc, msg) == [kind |-> "raise", msg |-> msg, parts |-> <<>>, exc |-> exc]

NoOut == [kind |-> "none", msg |-> "", parts |-> <<>>, exc |-> ""]

Unset == [pytype |-> "unset"]

\* str(e)
StrOfError(r) == <<r.msg, r.detail>>

\* an except clause naming another exception class
CatchesOMDBAPIError_never(r) == FALSE

\* except OMDBAPIError as e
CatchesOMDBAPIError(r) == r.kind = "raise" /\ r.exc = "OMDBAPIError"

MovieFields ==
    <<"Title", "Year", "Rated", "Released", "Runtime", "Genre", "Director", "Actors",
      "Plot", "Language", "Country", "Awards", "imdbRating", "imdbVotes">>

format_movie_info(movie_data) ==
    Text("movie_info",
         [i \in 1..Len(MovieFields) |-> Get(movie_data, MovieFields[i], NA)])

format_movie_from_csv(movie_row) ==
    Text("movie_from_csv",
         <<movie_row.Series_Title, movie_row.Released_Year, movie_row.IMDB_Rating,
           movie_row.Genre, movie_row.Director, movie_row.Star1, movie_row.Star2,
           movie_row.Star3, movie_row.Star4, movie_row.Overview>>)

MsgUnavailable == "Lokalnyi dataset IMDb Top 1000 nedostupen."

-----------------------------------------------------------------------------
(* Arguments the orchestrator may pass *)

TitleHeat == <<"h","e","a","t">>
TitleNone == <<"z","z">>
TitleParen == <<"(">>
NoYear == EmptyStr
GenreDrama == <<"d","r","a","m","a">>
tt0113277 == <<"t","t","0","1","1","3","2","7","7">>

Titles == {TitleHeat, TitleNone, TitleParen}
Years == {NoYear, Y1995}
Genres == {GenreDrama, TitleNone, TitleParen}
People == {<<"m","a","n","n">>, <<"w","e","a","v","e","r">>, TitleNone, TitleParen}
Ratings == {80, 84, 90}

\* `if year:` and `if genre:`
Truthy(s) == s # EmptyStr

Min(a, b) == IF a < b THEN a ELSE b

SearchListLimit == 10

Idle == [tool |-> "none"]

\* A tool enters call_omdb_api(params) with the default max_retries and retry_delay.
CallClient(invocation, p, first) ==
    /\ inv' = invocation
    /\ params' = p
    /\ max_retries' = DefaultMaxRetries
    /\ retry_delay' = DefaultRetryDelay
    /\ pc' = "call"
    /\ ret' = NoRet
    /\ attempt' = 0
    /\ log' = <<>>
    /\ result1' = first
    /\ UNCHANGED <<OMDB_API_KEY, df>>

\* The tool returns or raises: the invocation is over.
Finish(o, queries) ==
    /\ out' = o
    /\ dfq' = queries
    /\ pc' = "done"
    /\ UNCHANGED <<OMDB_API_KEY, df, inv, params, max_retries, retry_delay,
                   attempt, log, ret, result1, lookups>>

CsvQuery(col, pat) == [col |-> col, pat |-> pat]

-----------------------------------------------------------------------------
(* search_movie_by_title *)

search_movie_by_title_call ==
    /\ pc = "idle"
    /\ \E title \in Titles, year \in Years :
          /\ CallClient([tool |-> "search_movie_by_title", title |-> title, year |-> year],
                        IF Truthy(year) THEN [t |-> title, y |-> year] ELSE [t |-> title],
                        Unset)
          /\ dfq' = <<>>
          /\ lookups' = <<>>
          /\ out' = NoOut

\* line 106
DfIsNotNone(d) == ~IsNone(d)

MsgNotFoundAnywhere ==
    "Film '{title}' ne naiden ni v OMDB API, ni v lokalnom datasete IMDb Top 1000."

\* lines 106-110 left out: "not found" without looking at the dataset
CsvFallback_skips(title, d) ==
    [out |-> Text(MsgNotFoundAnywhere, <<title>>), dfq |-> <<>>]

\* lines 105-112
CsvFallback(title, d) ==
    IF DfIsNotNone(d)
    THEN IF IsNone(d)
         THEN [out |-> Escapes("TypeError", "'NoneType' object is not subscriptable"),
               dfq |-> <<>>]
         ELSE IF RegexError(title)
         THEN [out |-> Escapes("re.error", "missing ), unterminated subpattern"),
               dfq |-> <<CsvQuery("Series_Title", title)>>]
         ELSE LET result == Filter(d.rows, "Series_Title", title) IN
              [out |-> IF result # <<>>
                       THEN format_movie_from_csv(result[1])
                       ELSE Text(MsgNotFoundAnywhere, <<title>>),
               dfq |-> <<CsvQuery("Series_Title", title)>>]
    ELSE [out |-> Text(MsgNotFoundAnywhere, <<title>>), dfq |-> <<>>]

\* lines 99-103
SearchMovieByTitle(r, title, d) ==
    IF r.kind = "return" /\ ~IsNone(r.value)
    THEN [out |-> format_movie_info(r.value), dfq |-> <<>>]
    ELSE IF r.kind = "raise" /\ ~CatchesOMDBAPIError(r)
    THEN [out |-> Escapes(r.exc, r.msg), dfq |-> <<>>]
    ELSE CsvFallback(title, d)

search_movie_by_title_return ==
    /\ pc = "ret"
    /\ inv.tool = "search_movie_by_title"
    /\ LET res == SearchMovieByTitle(ret, inv.title, df) IN Finish(res.out, res.dfq)

-----------------------------------------------------------------------------
(* search_movies_list and search_movies_by_year_and_type *)

MovieLines(movies, keys) ==
    [i \in 1..Len(movies) |-> [k \in 1..Len(keys) |-> Get(movies[i], keys[k], NA)]]

search_movies_list_call ==
    /\ pc = "idle"
    /\ \E query \in {TitleHeat, TitleNone}, year \in Years :
          /\ CallClient([tool |-> "search_movies_list", query |-> query, year |-> year],
                        IF Truthy(year) THEN [s |-> query, y |-> year] ELSE [s |-> query],
                        Unset)
          /\ dfq' = <<>>
          /\ lookups' = <<>>
          /\ out' = NoOut

\* lines 127-152
SearchMoviesList(r, query) ==
    IF r.kind = "raise"
    THEN IF CatchesOMDBAPIError(r)
         THEN Text("Oshibka pri poiske filmov: {e}", StrOfError(r))
         ELSE Escapes(r.exc, r.msg)
    ELSE LET result == r.value IN
         IF IsNone(result) \/ (HasKey(result, "totalResults") /\ result.totalResults = Zero)
         THEN Text("Filmy po zaprosu '{query}' ne naideny.", <<query>>)
         ELSE LET movies == Get(result, "Search", <<>>) IN
              IF movies = <<>>
              THEN Text("Filmy po zaprosu '{query}' ne naideny.", <<query>>)
              ELSE Text("Naideno {totalResults} filmov po zaprosu '{query}'",
                        <<Get(result, "totalResults", Len(movies)), query,
                          MovieLines(SubSeq(movies, 1, Min(Len(movies), SearchListLimit)),
                                     <<"Title", "Year", "Type">>)>>)

search_movies_list_return ==
    /\ pc = "ret"
    /\ inv.tool = "search_movies_list"
    /\ Finish(SearchMoviesList(ret, inv.query), <<>>)

search_movies_by_year_and_type_call ==
    /\ pc = "idle"
    /\ \E query \in {TitleHeat}, year \in {Y1995}, movie_type \in {TypeMovie} :
          /\ CallClient([tool |-> "search_movies_by_year_and_type", query |-> query,
                         year |-> year, movie_type |-> movie_type],
                        [s |-> query, y |-> year, type |-> movie_type],
                        Unset)
          /\ dfq' = <<>>
          /\ lookups' = <<>>
          /\ out' = NoOut

\* lines 254-275
SearchMoviesByYearAndType(r, query, year, movie_type) ==
    IF r.kind = "raise"
    THEN IF CatchesOMDBAPIError(r)
         THEN Text("Oshibka pri poiske: {e}", StrOfError(r))
         ELSE Escapes(r.exc, r.msg)
    ELSE LET result == r.value IN
         IF IsNone(result) \/ (HasKey(result, "totalResults") /\ result.totalResults = Zero)
         THEN Text("Filmy po zaprosu '{query}' ({year}, {movie_type}) ne naideny.",
                   <<query, year, movie_type>>)
         ELSE LET movies == Get(result, "Search", <<>>) IN
              IF movies = <<>>
              THEN Text("Filmy po zaprosu '{query}' ne naideny.", <<query>>)
              ELSE Text("Naideno {totalResults} filmov ({year}, {movie_type})",
                        <<Get(result, "totalResults", Len(movies)), year, movie_type,
                          MovieLines(movies, <<"Title", "Year">>)>>)

search_movies_by_year_and_type_return ==
    /\ pc = "ret"
    /\ inv.tool = "search_movies_by_year_and_type"
    /\ Finish(SearchMoviesByYearAndType(ret, inv.query, inv.year, inv.movie_type), <<>>)

-----------------------------------------------------------------------------
(* get_movie_by_id *)

get_movie_by_id_call ==
    /\ pc = "idle"
    /\ \E imdb_id \in {tt0113277, TitleNone} :
          /\ CallClient([tool |-> "get_movie_by_id", imdb_id |-> imdb_id],
                        [i |-> imdb_id], Unset)
          /\ dfq' = <<>>
          /\ lookups' = <<>>
          /\ out' = NoOut

\* lines 227-236
GetMovieById(r, imdb_id) ==
    IF r.kind = "raise"
    THEN IF CatchesOMDBAPIError(r)
         THEN Text("Oshibka pri poluchenii informatsii o filme: {e}", StrOfError(r))
         ELSE Escapes(r.exc, r.msg)
    ELSE IF IsNone(r.value)
    THEN Text("Film s ID '{imdb_id}' ne naiden.", <<imdb_id>>)
    ELSE format_movie_info(r.value)

get_movie_by_id_return ==
    /\ pc = "ret"
    /\ inv.tool = "get_movie_by_id"
    /\ Finish(GetMovieById(ret, inv.imdb_id), <<>>)

-----------------------------------------------------------------------------
(* compare_two_movies *)

compare_two_movies_call ==
    /\ pc = "idle"
    /\ \E title1 \in {TitleHeat, TitleNone}, title2 \in {TitleHeat, TitleNone} :
          /\ CallClient([tool |-> "compare_two_movies", title1 |-> title1, title2 |-> title2],
                        [t |-> title1], Unset)
          /\ dfq' = <<>>
          /\ lookups' = <<>>
          /\ out' = NoOut

CompareFields == <<"Year", "Genre", "Director", "imdbRating", "Runtime", "Actors", "Awards">>

\* lines 171-175 in the other order: result2 looked at first
Comparison_second_first(r1, r2, title1, title2) ==
    IF IsNone(r2)
    THEN Text("Vtoroi film '{title2}' ne naiden.", <<title2>>)
    ELSE IF IsNone(r1)
    THEN Text("Pervyi film '{title1}' ne naiden.", <<title1>>)
    ELSE Text("Sravnenie filmov", <<Get(r1, "Title", NA), Get(r2, "Title", NA)>>)

\* lines 171-210
Comparison(r1, r2, title1, title2) ==
    IF IsNone(r1)
    THEN Text("Pervyi film '{title1}' ne naiden.", <<title1>>)
    ELSE IF IsNone(r2)
    THEN Text("Vtoroi film '{title2}' ne naiden.", <<title2>>)
    ELSE Text("Sravnenie filmov",
              <<Get(r1, "Title", NA), Get(r2, "Title", NA),
                [i \in 1..Len(CompareFields) |->
                    <<Get(r1, CompareFields[i], NA), Get(r2, CompareFields[i], NA)>>]>>)

\* lines 212-213, and an exception that is no OMDBAPIError
CompareError(r) ==
    IF CatchesOMDBAPIError(r)
    THEN Text("Oshibka pri sravnenii filmov: {e}", StrOfError(r))
    ELSE Escapes(r.exc, r.msg)

\* line 168 returned or raised
compare_two_movies_first ==
    /\ pc = "ret"
    /\ inv.tool = "compare_two_movies"
    /\ result1.pytype = "unset"
    /\ IF ret.kind = "raise"
       THEN Finish(CompareError(ret), <<>>)
       ELSE /\ CallClient(inv, [t |-> inv.title2], ret.value)
            /\ UNCHANGED <<dfq, out, lookups>>

\* line 169 returned or raised
compare_two_movies_second ==
    /\ pc = "ret"
    /\ inv.tool = "compare_two_movies"
    /\ result1.pytype # "unset"
    /\ Finish(IF ret.kind = "raise"
              THEN CompareError(ret)
              ELSE Comparison(result1, ret.value, inv.title1, inv.title2),
              <<>>)

-----------------------------------------------------------------------------
(* The dataset tools: no call that blocks, one step each *)

\* the guard of lines 291, 319, 347, 386 left out
DfIsNone_never(d) == FALSE

\* lines 291, 319, 347, 386: `if df is None`
DfIsNone(d) == IsNone(d)

NotSubscriptable == Escapes("TypeError", "'NoneType' object is not subscriptable")

BadPattern == Escapes("re.error", "missing ), unterminated subpattern")

RowLines(rows) ==
    [i \in 1..Len(rows) |->
        <<rows[i].Series_Title, rows[i].Released_Year, rows[i].IMDB_Rating,
          rows[i].Genre, rows[i].Director>>]

\* lines 291-305
GetTopMoviesByGenre(genre, limit, d) ==
    IF DfIsNone(d) THEN Text(MsgUnavailable, <<>>)
    ELSE IF IsNone(d) THEN NotSubscriptable
    ELSE IF RegexError(genre) THEN BadPattern
    ELSE LET filtered == Filter(d.rows, "Genre", genre) IN
         IF filtered = <<>>
         THEN Text("Filmy zhanra '{genre}' ne naideny v datasete.", <<genre>>)
         ELSE Text("Top-{limit} filmov zhanra {genre} (iz IMDb Top 1000)",
                   <<limit, genre, RowLines(NLargest(filtered, limit))>>)

\* lines 319-333
GetMoviesByDirector(director, d) ==
    IF DfIsNone(d) THEN Text(MsgUnavailable, <<>>)
    ELSE IF IsNone(d) THEN NotSubscriptable
    ELSE IF RegexError(director) THEN BadPattern
    ELSE LET result == Filter(d.rows, "Director", director) IN
         IF result = <<>>
         THEN Text("Filmy rezhissera '{director}' ne naideny v datasete IMDb Top 1000.",
                   <<director>>)
         ELSE Text("Filmy rezhissera {director} (iz IMDb Top 1000)",
                   <<director, RowLines(result)>>)

\* lines 347-368
GetMoviesByActor(actor, d) ==
    IF DfIsNone(d) THEN Text(MsgUnavailable, <<>>)
    ELSE IF IsNone(d) THEN NotSubscriptable
    ELSE IF RegexError(actor) THEN BadPattern
    ELSE LET result == FilterActor(d.rows, actor) IN
         IF result = <<>>
         THEN Text("Filmy s akterom '{actor}' ne naideny v datasete IMDb Top 1000.",
                   <<actor>>)
         ELSE Text("Filmy s {actor} (iz IMDb Top 1000)", <<actor, RowLines(result)>>)

\* lines 386-408
GetMoviesByRating(min_rating, genre, limit, d) ==
    IF DfIsNone(d) THEN Text(MsgUnavailable, <<>>)
    ELSE IF IsNone(d) THEN NotSubscriptable
    ELSE IF Truthy(genre) /\ RegexError(genre) THEN BadPattern
    ELSE LET byRating == FilterRating(d.rows, min_rating)
             filtered == IF Truthy(genre) THEN Filter(byRating, "Genre", genre)
                         ELSE byRating
         IN IF filtered = <<>>
            THEN Text("Filmy{genre_text} s reitingom >= {min_rating} ne naideny v datasete.",
                      <<genre, min_rating>>)
            ELSE Text("Filmy{genre_text} s reitingom >= {min_rating} (iz IMDb Top 1000)",
                      <<genre, min_rating, RowLines(NLargest(filtered, limit))>>)

\* A dataset tool runs from its call to its return in one step.
RunDatasetTool(invocation, o, queries) ==
    /\ pc = "idle"
    /\ inv' = invocation
    /\ out' = o
    /\ dfq' = queries
    /\ lookups' = <<>>
    /\ pc' = "done"
    /\ result1' = Unset
    /\ UNCHANGED <<OMDB_API_KEY, df, params, max_retries, retry_delay, attempt, log, ret>>

Queried(d, col, pat) == IF IsNone(d) THEN <<>> ELSE <<CsvQuery(col, pat)>>

get_top_movies_by_genre ==
    \E genre \in Genres, limit \in 0..MaxLimit :
        RunDatasetTool([tool |-> "get_top_movies_by_genre", genre |-> genre, limit |-> limit],
                       GetTopMoviesByGenre(genre, limit, df), Queried(df, "Genre", genre))

get_movies_by_director ==
    \E director \in People :
        RunDatasetTool([tool |-> "get_movies_by_director", director |-> director],
                       GetMoviesByDirector(director, df), Queried(df, "Director", director))

get_movies_by_actor ==
    \E actor \in People :
        RunDatasetTool([tool |-> "get_movies_by_actor", actor |-> actor],
                       GetMoviesByActor(actor, df), Queried(df, "Star1", actor))

get_movies_by_rating ==
    \E min_rating \in Ratings, genre \in {EmptyStr, GenreDrama, TitleParen},
       limit \in 0..MaxLimit :
        RunDatasetTool([tool |-> "get_movies_by_rating", min_rating |-> min_rating,
                        genre |-> genre, limit |-> limit],
                       GetMoviesByRating(min_rating, genre, limit, df),
                       Queried(df, "IMDB_Rating", genre))

-----------------------------------------------------------------------------
(* call_omdb_api called with explicit max_retries and retry_delay *)

call_omdb_api_call ==
    /\ pc = "idle"
    /\ \E m \in 0..MaxRetries, d \in {DefaultRetryDelay, MaxDelay} :
          /\ inv' = [tool |-> "call_omdb_api"]
          /\ params' = [t |-> TitleHeat]
          /\ max_retries' = m
          /\ retry_delay' = d
    /\ pc' = "call"
    /\ ret' = NoRet
    /\ attempt' = 0
    /\ log' = <<>>
    /\ result1' = Unset
    /\ dfq' = <<>>
    /\ lookups' = <<>>
    /\ out' = NoOut
    /\ UNCHANGED <<OMDB_API_KEY, df>>

\* the caller has the LookupOutcome: the returned value, or the exception raised
call_omdb_api_return ==
    /\ pc = "ret"
    /\ inv.tool = "call_omdb_api"
    /\ Finish(IF ret.kind = "raise" THEN Escapes(ret.exc, ret.msg)
              ELSE [kind |-> "value", msg |-> "", parts |-> <<>>, exc |-> ""],
              <<>>)

-----------------------------------------------------------------------------
(* The process *)

\* tools.py lines 10-14: the module is imported, the dataset is loaded or not
LoadDataset ==
    /\ pc = "import"
    /\ \E loaded \in Datasets \cup {None} : df' = loaded
    /\ pc' = "idle"
    /\ UNCHANGED <<OMDB_API_KEY, inv, params, max_retries, retry_delay, attempt,
                   log, ret, result1, dfq, lookups, out>>

\* the loop of main(): the next turn, whatever the last one gave
NextInvocation ==
    /\ pc = "done"
    /\ pc' = "idle"
    /\ inv' = Idle
    /\ params' = [t |-> EmptyStr]
    /\ max_retries' = DefaultMaxRetries
    /\ retry_delay' = DefaultRetryDelay
    /\ attempt' = 0
    /\ log' = <<>>
    /\ ret' = NoRet
    /\ result1' = Unset
    /\ dfq' = <<>>
    /\ lookups' = <<>>
    /\ out' = NoOut
    /\ UNCHANGED <<OMDB_API_KEY, df>>

ApiKeys == {EmptyStr, <<"k","e","y">>}

Init ==
    /\ pc = "import"
    /\ OMDB_API_KEY \in ApiKeys
    /\ df = Unset
    /\ inv = Idle
    /\ params = [t |-> EmptyStr]
    /\ max_retries = DefaultMaxRetries
    /\ retry_delay = DefaultRetryDelay
    /\ attempt = 0
    /\ log = <<>>
    /\ ret = NoRet
    /\ result1 = Unset
    /\ dfq = <<>>
    /\ lookups = <<>>
    /\ out = NoOut

Next ==
    \/ LoadDataset
    \/ call_omdb_api_call
    \/ ClientEnter
    \/ ClientRequest
    \/ RecvJson
    \/ RecvTimeout
    \/ RecvRequestException
    \/ SleepDone
    \/ call_omdb_api_return
    \/ search_movie_by_title_call
    \/ search_movie_by_title_return
    \/ search_movies_list_call
    \/ search_movies_list_return
    \/ compare_two_movies_call
    \/ compare_two_movies_first
    \/ compare_two_movies_second
    \/ get_movie_by_id_call
    \/ get_movie_by_id_return
    \/ search_movies_by_year_and_type_call
    \/ search_movies_by_year_and_type_return
    \/ get_top_movies_by_genre
    \/ get_movies_by_director
    \/ get_movies_by_actor
    \/ get_movies_by_rating
    \/ NextInvocation

Spec == Init /\ [][Next]_vars

-----------------------------------------------------------------------------
(* Reading the log of a client call *)

IsSleep(e) == e.ev = "sleep"
IsResponse(e) == e.ev = "response"

Responses(l) == SelectSeq(l, IsResponse)
Pauses(l) == LET p == SelectSeq(l, IsSleep) IN [i \in 1..Len(p) |-> p[i].secs]

\* the number of retries of a call: its requests after the first
Retries(l) == Requests(l) - 1

LogicalFailure(e) ==
    /\ IsResponse(e)
    /\ e.transport = "ok"
    /\ e.data.pytype = "dict"
    /\ HasKey(e.data, "Response")
    /\ e.data.Response = "False"

ErrorOf(e) == Get(e.data, "Error", STR_Unknown_error)

MentionsLimit(m) == Contains(STR_limit, Lower(m)) \/ Contains(STR_quota, Lower(m))
MentionsNotFound(m) == Contains(STR_not_found, Lower(m))

RateLimitResponse(e) == LogicalFailure(e) /\ MentionsLimit(ErrorOf(e))
NotFoundResponse(e) ==
    LogicalFailure(e) /\ ~MentionsLimit(ErrorOf(e)) /\ MentionsNotFound(ErrorOf(e))
OtherFailureResponse(e) ==
    LogicalFailure(e) /\ ~MentionsLimit(ErrorOf(e)) /\ ~MentionsNotFound(ErrorOf(e))
TimeoutResponse(e) == IsResponse(e) /\ e.transport = "timeout"
NetworkErrorResponse(e) == IsResponse(e) /\ e.transport = "error"
JsonObjectResponse(e) == IsResponse(e) /\ e.transport = "ok" /\ e.data.pytype = "dict"

\* the client call has ended, and its log and outcome are still in place
CallEnded == pc = "ret" \/ (pc = "done" /\ ret.kind # "none")

EveryAttempt(P(_)) ==
    /\ Responses(log) # <<>>
    /\ \A i \in 1..Len(log) : IsResponse(log[i]) => P(log[i])

IsFailed(r) == r.kind = "raise" /\ r.exc = "OMDBAPIError"
IsNotFound(r) == r.kind = "return" /\ IsNone(r.value)
IsFound(r) == r.kind = "return" /\ r.value.pytype = "dict"

-----------------------------------------------------------------------------
(* C1: when every attempt of a call is answered with a rate-limit failure, the  *)
(* call makes max_retries requests, pausing retry_delay * 1, retry_delay * 2,   *)
(* ... between them, and ends with the "Rate limit exceeded" OMDBAPIError.      *)

\* The claim as stated: max_retries retries, so max_retries pauses d, 2d, ..., and
\* then the rate-limit failure.
C1_AsStated ==
    (CallEnded /\ EveryAttempt(RateLimitResponse)) =>
        /\ Retries(log) = max_retries
        /\ Pauses(log) = [i \in 1..max_retries |-> retry_delay * i]
        /\ IsFailed(ret) /\ ret.msg = "Rate limit exceeded: "

\* C1 as amended: max_retries requests are made in all, that is max_retries - 1
\* retries, after pauses of d, 2d, ..., (max_retries - 1) d; the call then ends
\* with the rate-limit failure carrying the last error message.
C1_RateLimitRetries ==
    (CallEnded /\ EveryAttempt(RateLimitResponse)) =>
        /\ Requests(log) = max_retries
        /\ Retries(log) = max_retries - 1
        /\ Pauses(log) = [i \in 1..(max_retries - 1) |-> retry_delay * i]
        /\ ret = OMDBAPIError("Rate limit exceeded: ", ErrorOf(log[Len(log)]))

C1_Witness ==
    /\ pc = "ret"
    /\ EveryAttempt(RateLimitResponse)
    /\ max_retries = 3 /\ retry_delay = 2
    /\ Pauses(log) = <<2, 4>>
    /\ ret.msg = "Rate limit exceeded: "

-----------------------------------------------------------------------------
(* C2: when every attempt of a call times out, the call ends with the timeout   *)
(* failure after exactly max_retries attempts, pausing retry_delay seconds.     *)

PrecededByOnePause(l, i) ==
    /\ i > 2
    /\ IsSleep(l[i - 1]) /\ l[i - 1].secs = retry_delay
    /\ ~IsSleep(l[i - 2])

\* The claim as stated: each attempt is preceded by exactly one pause.
C2_AsStated ==
    (CallEnded /\ EveryAttempt(TimeoutResponse)) =>
        /\ Requests(log) = max_retries
        /\ IsFailed(ret)
        /\ ret.msg = "Request timeout: OMDB API did not respond in time"
        /\ \A i \in 1..Len(log) : IsRequest(log[i]) => PrecededByOnePause(log, i)

\* C2 as amended: the first attempt is preceded by no pause; each later attempt is
\* preceded by exactly one pause of retry_delay seconds, not scaled.
C2_TimeoutRetries ==
    (CallEnded /\ EveryAttempt(TimeoutResponse)) =>
        /\ Requests(log) = max_retries
        /\ ret = OMDBAPIError("Request timeout: OMDB API did not respond in time", EmptyStr)
        /\ IsRequest(log[1])
        /\ \A i \in 2..Len(log) : IsRequest(log[i]) => PrecededByOnePause(log, i)
        /\ Pauses(log) = [i \in 1..(max_retries - 1) |-> retry_delay]

C2_Witness ==
    /\ pc = "ret"
    /\ EveryAttempt(TimeoutResponse)
    /\ max_retries = 3 /\ retry_delay = 2
    /\ Pauses(log) = <<2, 2>>
    /\ ret.msg = "Request timeout: OMDB API did not respond in time"

-----------------------------------------------------------------------------
(* C3: an attempt answered with a "not found" failure that is no rate-limit     *)
(* failure ends the call at once with None: it is the last event of the call,   *)
(* no pause and no request follows it; on the first attempt that is one request *)
(* and no retry.                                                                *)

C3_NotFoundImmediate ==
    \A i \in 1..Len(log) :
        NotFoundResponse(log[i]) =>
            /\ i = Len(log)
            /\ CallEnded
            /\ ret = Return(None)
            /\ (i = 2 => Requests(log) = 1 /\ Retries(log) = 0 /\ Pauses(log) = <<>>)

C3_Witness ==
    /\ pc = "ret"
    /\ Len(log) = 2
    /\ NotFoundResponse(log[2])
    /\ ErrorOf(log[2]) = MsgNotFoundUpper
    /\ max_retries = 3
    /\ ret = Return(None)

-----------------------------------------------------------------------------
(* C4: an attempt answered with a logical failure that is neither a rate-limit  *)
(* nor a "not found" failure ends the call at once with the "OMDB API error"    *)
(* OMDBAPIError carrying the message, however many attempts remain.             *)

C4_ApiErrorNotRetried ==
    \A i \in 1..Len(log) :
        OtherFailureResponse(log[i]) =>
            /\ i = Len(log)
            /\ CallEnded
            /\ ret = OMDBAPIError("OMDB API error: ", ErrorOf(log[i]))

C4_Witness ==
    /\ pc = "ret"
    /\ Len(log) = 2
    /\ OtherFailureResponse(log[2])
    /\ ErrorOf(log[2]) = MsgInvalidKey
    /\ max_retries = 3
    /\ attempt = 0
    /\ ret.msg = "OMDB API error: "

-----------------------------------------------------------------------------
(* C5: with max_retries >= 1 and every attempt answered by a timeout, a network *)
(* error or a JSON object, a call issues one request per attempt and at most    *)
(* max_retries of them, every pause is followed by a further attempt within the *)
(* budget, and the call ends as Found (a dict), NotFound (None) or Failed (an   *)
(* OMDBAPIError), nothing else.                                                 *)

ListedResult(e) ==
    TimeoutResponse(e) \/ NetworkErrorResponse(e) \/ JsonObjectResponse(e)

C5_BoundedAndResolved ==
    (/\ max_retries >= 1
     /\ \A i \in 1..Len(log) : IsResponse(log[i]) => ListedResult(log[i])) =>
        /\ Requests(log) <= max_retries
        /\ attempt <= max_retries
        /\ pc = "loop" => Requests(log) = attempt
        /\ pc = "await" => Requests(log) = attempt + 1 /\ Len(Responses(log)) = attempt
        /\ pc = "sleep" => Requests(log) = attempt + 1 /\ attempt + 1 < max_retries
        /\ pc = "ret" => Len(Responses(log)) = Requests(log)
        /\ CallEnded => IsFound(ret) \/ IsNotFound(ret) \/ IsFailed(ret)

C5_Witness ==
    /\ pc = "ret"
    /\ max_retries = 3
    /\ Requests(log) = 3
    /\ TimeoutResponse(log[2])
    /\ NetworkErrorResponse(log[5])
    /\ RateLimitResponse(log[8])
    /\ IsFailed(ret)

-----------------------------------------------------------------------------
(* C6: with no API key configured a call issues no request, takes no pause and  *)
(* never enters the retry loop; it ends with the configuration OMDBAPIError,    *)
(* whatever params and max_retries are.                                         *)

MsgNoKey == "OMDB API key is not configured. Please set OMDB_API_KEY in .env file"

C6_NoKeyFailsFast ==
    OMDB_API_KEY = EmptyStr =>
        /\ log = <<>>
        /\ pc \notin {"loop", "await", "sleep"}
        /\ pc = "ret" => ret = OMDBAPIError(MsgNoKey, EmptyStr)

C6_Witness ==
    /\ OMDB_API_KEY = EmptyStr
    /\ pc = "ret"
    /\ inv.tool = "call_omdb_api"
    /\ max_retries = 3
    /\ ret.msg = MsgNoKey
    /\ log = <<>>

-----------------------------------------------------------------------------
(* C7: a tool whose client call ended Failed returns a text reporting the error. *)

ErrorTemplate ==
    [search_movies_list |-> "Oshibka pri poiske filmov: {e}",
     compare_two_movies |-> "Oshibka pri sravnenii filmov: {e}",
     get_movie_by_id |-> "Oshibka pri poluchenii informatsii o filme: {e}",
     search_movies_by_year_and_type |-> "Oshibka pri poiske: {e}"]

ErrorTemplates == {ErrorTemplate[t] : t \in DOMAIN ErrorTemplate}

ApiTools == DOMAIN ErrorTemplate \cup {"search_movie_by_title"}

ReportsError(o, r) ==
    /\ o.kind = "text"
    /\ o.msg \in ErrorTemplates
    /\ o.parts = StrOfError(r)

\* The claim as stated: all five tools report the error.
C7_AsStated ==
    (pc = "done" /\ inv.tool \in ApiTools /\ IsFailed(ret)) => ReportsError(out, ret)

\* C7 as amended: search_movies_list, compare_two_movies, get_movie_by_id and
\* search_movies_by_year_and_type report the error, each in its own error text;
\* search_movie_by_title swallows the failure and goes on to the dataset: what it
\* returns is dataset movie data or its "not found" message, never the error.
C7_FailedSurfaced ==
    (pc = "done" /\ IsFailed(ret)) =>
        /\ inv.tool \in DOMAIN ErrorTemplate =>
              ReportsError(out, ret) /\ out.msg = ErrorTemplate[inv.tool]
        /\ inv.tool = "search_movie_by_title" =>
              /\ ~ReportsError(out, ret)
              /\ out.kind = "text" => out.msg \in {"movie_from_csv", MsgNotFoundAnywhere}

C7_Witness ==
    /\ pc = "done"
    /\ inv.tool = "get_movie_by_id"
    /\ IsFailed(ret) /\ ret.msg = "Rate limit exceeded: "
    /\ ReportsError(out, ret)

-----------------------------------------------------------------------------
(* C8: a lookup tool says "not found" only after the dataset was asked and had  *)
(* no match, or is unavailable; the dataset is not asked when the API found     *)
(* the film.                                                                    *)

LookupTools == {"search_movie_by_title", "get_movie_by_id", "compare_two_movies"}

NotFoundTemplates ==
    {MsgNotFoundAnywhere, "Film s ID '{imdb_id}' ne naiden.",
     "Pervyi film '{title1}' ne naiden.", "Vtoroi film '{title2}' ne naiden."}

SaysNotFound(o) == o.kind = "text" /\ o.msg \in NotFoundTemplates

\* The claim as stated, for the three lookup tools.
C8_AsStated ==
    (pc = "done" /\ inv.tool \in LookupTools) =>
        /\ SaysNotFound(out) => IsNone(df) \/ dfq # <<>>
        /\ IsFound(ret) => dfq = <<>>

\* C8 as amended: only search_movie_by_title has a fallback. Its "not found"
\* message is returned only when the dataset is unavailable or was asked for the
\* title and no row matched, and it does not ask the dataset when the API found
\* the film; get_movie_by_id and compare_two_movies never ask the dataset.
C8_FallbackBeforeNotFound ==
    pc = "done" =>
        /\ inv.tool = "search_movie_by_title" =>
              /\ SaysNotFound(out) =>
                    \/ IsNone(df)
                    \/ /\ dfq = <<CsvQuery("Series_Title", inv.title)>>
                       /\ \A i \in 1..Len(df.rows) :
                             ~Contains(Lower(inv.title), Lower(df.rows[i].Series_Title))
              /\ IsFound(ret) => dfq = <<>> /\ out.msg = "movie_info"
        /\ inv.tool \in {"get_movie_by_id", "compare_two_movies"} => dfq = <<>>

C8_Witness ==
    /\ pc = "done"
    /\ inv.tool = "search_movie_by_title"
    /\ inv.title = TitleNone
    /\ IsNotFound(ret)
    /\ ~IsNone(df)
    /\ dfq # <<>>
    /\ SaysNotFound(out)

-----------------------------------------------------------------------------
(* C9: every invocation of every tool ends with a text, never with an           *)
(* exception, whatever the arguments, the client's outcome, the payload and     *)
(* the state of the dataset.                                                    *)

Tools ==
    ApiTools \cup {"get_top_movies_by_genre", "get_movies_by_director",
                   "get_movies_by_actor", "get_movies_by_rating"}

C9_AsStated ==
    (pc = "done" /\ inv.tool \in Tools) => out.kind = "text"

-----------------------------------------------------------------------------
(* C10: once loading the dataset has failed (df is None), every dataset tool    *)
(* answers with the "unavailable" message and never raises.                     *)

DatasetTools ==
    {"get_top_movies_by_genre", "get_movies_by_director", "get_movies_by_actor",
     "get_movies_by_rating"}

SaysUnavailable(o) == o.kind = "text" /\ o.msg = MsgUnavailable

FallbackReached == IsNotFound(ret) \/ IsFailed(ret)

\* The claim as stated: the fallback of search_movie_by_title too.
C10_AsStated ==
    (IsNone(df) /\ pc = "done") =>
        /\ inv.tool \in DatasetTools => SaysUnavailable(out)
        /\ (inv.tool = "search_movie_by_title" /\ FallbackReached) => SaysUnavailable(out)

\* C10 as amended: the failed load leaves df None and the import goes on; the
\* four dataset tools then answer "unavailable" without touching the dataset;
\* the fallback of search_movie_by_title does not raise either, but answers with
\* the tool's "not found" message, not with "unavailable".
C10_DatasetUnavailable ==
    IsNone(df) =>
        /\ pc # "import"
        /\ (pc = "done" /\ inv.tool \in DatasetTools) =>
              SaysUnavailable(out) /\ dfq = <<>>
        /\ (pc = "done" /\ inv.tool = "search_movie_by_title" /\ FallbackReached) =>
              /\ out.kind = "text" /\ out.msg = MsgNotFoundAnywhere
              /\ dfq = <<>>

C10_Witness ==
    /\ IsNone(df)
    /\ pc = "done"
    /\ inv.tool = "get_top_movies_by_genre"
    /\ inv.genre = TitleParen
    /\ SaysUnavailable(out)

-----------------------------------------------------------------------------
(* C11: in a call with mixed retryable failures the pause after the failed      *)
(* attempt of index i is retry_delay * (i + 1) when that attempt was            *)
(* rate-limited and retry_delay when it timed out or met a network error, i     *)
(* counting all earlier attempts; it is taken only when i < max_retries - 1, no *)
(* pause follows the last attempt, and a request is issued only once the pause  *)
(* before it is over: at most one request is unanswered at any time.            *)

\* the index, from 0, of the attempt that event k of the log belongs to
AttemptOf(l, k) == Requests(SubSeq(l, 1, k)) - 1

RetryableResponse(e) ==
    RateLimitResponse(e) \/ TimeoutResponse(e) \/ NetworkErrorResponse(e)

PauseDue(e, i) ==
    IF RateLimitResponse(e) THEN retry_delay * (i + 1) ELSE retry_delay

C11_PausePerAttempt ==
    /\ \A k \in 1..Len(log) :
          /\ (RetryableResponse(log[k]) /\ AttemptOf(log, k) < max_retries - 1) =>
                /\ k < Len(log)
                /\ IsSleep(log[k + 1])
                /\ log[k + 1].secs = PauseDue(log[k], AttemptOf(log, k))
          /\ (IsResponse(log[k]) /\ AttemptOf(log, k) >= max_retries - 1) =>
                k = Len(log) /\ CallEnded
          /\ IsSleep(log[k]) =>
                /\ RetryableResponse(log[k - 1])
                /\ k = Len(log) =>
                      \/ pc = "sleep" /\ attempt = AttemptOf(log, k)
                      \/ pc = "loop" /\ attempt = AttemptOf(log, k) + 1
                /\ k < Len(log) => IsRequest(log[k + 1])
          /\ IsRequest(log[k]) =>
                /\ k = 1 \/ IsSleep(log[k - 1])
                /\ k = Len(log) => pc = "await"
                /\ k < Len(log) => IsResponse(log[k + 1])
    /\ pc = "sleep" => log # <<>> /\ IsSleep(log[Len(log)])
    /\ Requests(log) - Len(Responses(log)) = (IF pc = "await" THEN 1 ELSE 0)

C11_Witness ==
    /\ pc = "ret"
    /\ max_retries = 3 /\ retry_delay = 2
    /\ Len(log) = 8
    /\ TimeoutResponse(log[2]) /\ log[3] = EvSleep(2)
    /\ RateLimitResponse(log[5]) /\ log[6] = EvSleep(4)
    /\ NetworkErrorResponse(log[8])
    /\ Pauses(log) = <<2, 4>>

-----------------------------------------------------------------------------
(* C12: compare_two_movies looks up title1 to the end, then title2, each with   *)
(* its own retry budget, before it looks at either result.                      *)

MsgFirstNotFound == "Pervyi film '{title1}' ne naiden."
MsgSecondNotFound == "Vtoroi film '{title2}' ne naiden."
MsgCompareError == "Oshibka pri sravnenii filmov: {e}"

\* the requests of all the lookups of the invocation, the one in progress too
TotalRequests ==
    (IF Len(lookups) >= 1 THEN lookups[1].requests ELSE 0)
    + (IF Len(lookups) >= 2 THEN lookups[2].requests ELSE 0)
    + (IF pc \in {"loop", "await", "sleep"} THEN Requests(log) ELSE 0)

SomeLookupFailed == \E k \in 1..Len(lookups) : IsFailed(lookups[k].ret)

\* what the tool answers once both lookups have returned
ComparisonOutcome ==
    /\ SomeLookupFailed =>
          /\ out.kind = "text" /\ out.msg = MsgCompareError
          /\ out.parts = StrOfError(lookups[Len(lookups)].ret)
    /\ (Len(lookups) = 2 /\ lookups[2].ret.kind = "return") =>
          /\ out.kind = "text"
          /\ IsNotFound(lookups[1].ret) => out.msg = MsgFirstNotFound
          /\ (~IsNotFound(lookups[1].ret) /\ IsNotFound(lookups[2].ret)) =>
                out.msg = MsgSecondNotFound
          /\ (IsFound(lookups[1].ret) /\ IsFound(lookups[2].ret)) =>
                out.msg = "Sravnenie filmov"

\* The claim as stated: both lookups are always performed.
C12_AsStated ==
    (pc = "done" /\ inv.tool = "compare_two_movies") =>
        /\ Len(lookups) = 2
        /\ lookups[1].params = [t |-> inv.title1]
        /\ lookups[2].params = [t |-> inv.title2]
        /\ TotalRequests <= 2 * max_retries
        /\ ComparisonOutcome

\* C12 as amended: the lookup of title1 is performed to the end; when it raised,
\* the tool answers at once (the comparison error for a Failed outcome) and
\* title2 is never looked up; when it returned, Found or NotFound, title2 is
\* looked up with a budget of its own before either result is looked at, at most
\* 2 * max_retries requests in all. A Failed second lookup gives the comparison
\* error also after a NotFound first one, and "first film not found" comes
\* before "second film not found".
C12_CompareLookups ==
    inv.tool = "compare_two_movies" =>
        /\ Len(lookups) <= 2
        /\ TotalRequests <= 2 * max_retries
        /\ Requests(log) <= max_retries
        /\ Len(lookups) >= 1 =>
              /\ lookups[1].params = [t |-> inv.title1]
              /\ lookups[1].requests <= max_retries
        /\ Len(lookups) = 2 =>
              /\ lookups[1].ret.kind = "return"
              /\ result1 = lookups[1].ret.value
              /\ lookups[2].params = [t |-> inv.title2]
              /\ lookups[2].requests <= max_retries
        /\ pc # "done" => out = NoOut
        /\ pc = "done" =>
              /\ Len(lookups) >= 1
              /\ Len(lookups) = 1 <=> lookups[1].ret.kind = "raise"
              /\ IsNotFound(lookups[1].ret) => Len(lookups) = 2
              /\ ComparisonOutcome

C12_Witness ==
    /\ pc = "done"
    /\ inv.tool = "compare_two_movies"
    /\ Len(lookups) = 2
    /\ IsNotFound(lookups[1].ret) /\ lookups[1].requests = 3
    /\ IsFailed(lookups[2].ret) /\ lookups[2].requests = 3
    /\ out.msg = MsgCompareError

C12_WitnessBothNotFound ==
    /\ pc = "done"
    /\ inv.tool = "compare_two_movies"
    /\ Len(lookups) = 2
    /\ IsNotFound(lookups[1].ret) /\ IsNotFound(lookups[2].ret)
    /\ out.msg = MsgFirstNotFound

====
